---- MODULE Spec2Model ----
(***************************************************************************)
(* Turn-taking core of the voice call client                              *)
(* (src/src/components/VoiceCallInterface.tsx).                            *)
(*                                                                         *)
(* The component is a set of callbacks running on one event loop.  Each    *)
(* action below is one callback or one resumption of an async function     *)
(* after an await, run to its next suspension point.                       *)
(*                                                                         *)
(* React state (status, uiPhase, isMuted, transcript) and refs are the     *)
(* variables.  The callbacks that drive a call (playTTS, the audio         *)
(* handlers, the recorder's onstop, checkVoiceActivity, processUserAudio)  *)
(* are all created by the render whose mount effect called                 *)
(* startConversation, so the `status` and `isMuted` they read are the      *)
(* values of that render: cbStatus and cbMuted.  Under Spec these keep     *)
(* their mount-time values, as JavaScript closures do.  Under SpecLive     *)
(* they follow status and isMuted, which is what the guards                *)
(* `status === 'active' && !isMuted` are written for; SpecLive is the      *)
(* only specification in which the VAD frame loop and the barge-in fade    *)
(* run at all.  SpecAll has the behaviours of both.                        *)
(*                                                                         *)
(* Time is the clock read by checkVoiceActivity.  The model looks at one   *)
(* frame every FrameMs; a fade (at most seven ticks of 50 ms) is over      *)
(* before the next frame the model looks at.  Under SpecVAD the frames     *)
(* follow a script (mic): each entry gives the time since the previous     *)
(* frame and whether the analyser reports speech; the End and Mute         *)
(* buttons are not used.  utterances is the log of line 323, toasts the    *)
(* toasts shown, fadeSteps the decrements applied to the current element,  *)
(* bargedIn whether a fade was started since playTTS was last called.      *)
(*                                                                         *)
(* SpecPlan is the orchestrator's planSpeech                               *)
(* (src/supabase/functions/voice-orchestrator/speechPlanner.ts), applied   *)
(* to every text over Chars of up to MaxLen characters.                    *)
(***************************************************************************)
EXTENDS Integers, Sequences, FiniteSets, TLC

\* ---- bounds of the model ----
MaxTurns == 2
MaxChunks == 2
MaxFrames == 6
FrameMs == 350
MaxQuiet == 3
MaxLoud == 4
MaxLen == 3

\* ---- program constants ----
SILENCE_DURATION == 650
MIN_SPEECH_DURATION == 250
FADE_STEP == 15
MAX_RECORDING_MS == 12000
FADE_FLOOR == 10
FULL_VOLUME == 100

Null == -1
MaxAudio == MaxTurns + 1
AudioIds == 1..MaxAudio
Callers == {"start", "turn"}

VARIABLES
  status, uiPhase, isMuted, transcript, mounted,
  cbStatus, cbMuted, rebind,
  conversationId, mediaRecorder, audioChunks, isProcessing,
  audioRef, isInterruption, audioContext, analyser, stream,
  isRecording, vadAnimation,
  speechStartTime, lastSpeechTime, now,
  fadeOut, volume, audio,
  pcStart, pcTurn, pcEnd, ttsPc, ttsAudio, stopEvent,
  turns, inFlight, onEndCalled,
  mic, micPos, utterances, toasts, fadeSteps, sttData, aiData, bargedIn,
  planText, planEmotion, plan,
  emotional_states, msgPc, emotionalState, currentState, emotionalContext

vars == << status, uiPhase, isMuted, transcript, mounted,
           cbStatus, cbMuted, rebind,
           conversationId, mediaRecorder, audioChunks, isProcessing,
           audioRef, isInterruption, audioContext, analyser, stream,
           isRecording, vadAnimation,
           speechStartTime, lastSpeechTime, now,
           fadeOut, volume, audio,
           pcStart, pcTurn, pcEnd, ttsPc, ttsAudio, stopEvent,
           turns, inFlight, onEndCalled,
           mic, micPos, utterances, toasts, fadeSteps, sttData, aiData,
           bargedIn,
           planText, planEmotion, plan,
           emotional_states, msgPc, emotionalState, currentState,
           emotionalContext >>

\* the orchestrator's side: the emotional_states row of the conversation and
\* the message request in progress
serverVars == << emotional_states, msgPc, emotionalState, currentState,
                 emotionalContext >>

\* The current state as one record, so that a handler is a function from
\* state to state and a handler that calls another composes them.
Cur ==
  [ status |-> status, uiPhase |-> uiPhase, isMuted |-> isMuted,
    transcript |-> transcript, mounted |-> mounted,
    cbStatus |-> cbStatus, cbMuted |-> cbMuted, rebind |-> rebind,
    conversationId |-> conversationId, mediaRecorder |-> mediaRecorder,
    audioChunks |-> audioChunks, isProcessing |-> isProcessing,
    audioRef |-> audioRef, isInterruption |-> isInterruption,
    audioContext |-> audioContext, analyser |-> analyser, stream |-> stream,
    isRecording |-> isRecording, vadAnimation |-> vadAnimation,
    speechStartTime |-> speechStartTime, lastSpeechTime |-> lastSpeechTime,
    now |-> now, fadeOut |-> fadeOut, volume |-> volume, audio |-> audio,
    pcStart |-> pcStart, pcTurn |-> pcTurn, pcEnd |-> pcEnd,
    ttsPc |-> ttsPc, ttsAudio |-> ttsAudio, stopEvent |-> stopEvent,
    turns |-> turns, inFlight |-> inFlight,
    onEndCalled |-> onEndCalled,
    mic |-> mic, micPos |-> micPos, utterances |-> utterances,
    toasts |-> toasts, fadeSteps |-> fadeSteps,
    sttData |-> sttData, aiData |-> aiData, bargedIn |-> bargedIn ]

Set(s) ==
  /\ status' = s.status /\ uiPhase' = s.uiPhase /\ isMuted' = s.isMuted
  /\ transcript' = s.transcript /\ mounted' = s.mounted
  /\ cbStatus' = s.cbStatus /\ cbMuted' = s.cbMuted /\ rebind' = s.rebind
  /\ conversationId' = s.conversationId /\ mediaRecorder' = s.mediaRecorder
  /\ audioChunks' = s.audioChunks /\ isProcessing' = s.isProcessing
  /\ audioRef' = s.audioRef /\ isInterruption' = s.isInterruption
  /\ audioContext' = s.audioContext /\ analyser' = s.analyser
  /\ stream' = s.stream /\ isRecording' = s.isRecording
  /\ vadAnimation' = s.vadAnimation
  /\ speechStartTime' = s.speechStartTime
  /\ lastSpeechTime' = s.lastSpeechTime /\ now' = s.now
  /\ fadeOut' = s.fadeOut /\ volume' = s.volume /\ audio' = s.audio
  /\ pcStart' = s.pcStart /\ pcTurn' = s.pcTurn /\ pcEnd' = s.pcEnd
  /\ ttsPc' = s.ttsPc /\ ttsAudio' = s.ttsAudio /\ stopEvent' = s.stopEvent
  /\ turns' = s.turns /\ inFlight' = s.inFlight
  /\ onEndCalled' = s.onEndCalled
  /\ mic' = s.mic /\ micPos' = s.micPos /\ utterances' = s.utterances
  /\ toasts' = s.toasts /\ fadeSteps' = s.fadeSteps
  /\ bargedIn' = s.bargedIn
  /\ sttData' = s.sttData /\ aiData' = s.aiData
  /\ UNCHANGED <<planText, planEmotion, plan>>
  /\ UNCHANGED serverVars

\* ---- React state setters: no effect once the component is unmounted ----
setUiPhase(s, p) == IF s.mounted THEN [s EXCEPT !.uiPhase = p] ELSE s

setStatus(s, v) ==
  IF s.mounted
  THEN [s EXCEPT !.status = v, !.cbStatus = IF s.rebind THEN v ELSE @]
  ELSE s

setTranscript(s, role) ==
  IF s.mounted THEN [s EXCEPT !.transcript = Append(@, role)] ELSE s

\* toast({ title }): shown by the application's Toaster
toast(s, title) == [s EXCEPT !.toasts = Append(@, title)]

\* `status === 'active' && !isMuted` as the call's callbacks evaluate it
cbActive(s) == s.cbStatus = "active" /\ ~s.cbMuted

listenIfActive(s) == IF cbActive(s) THEN setUiPhase(s, "listening") ELSE s

\* onEndCall(): the parent drops the component; its mount effect's cleanup
\* cancels the VAD frame and stops the tracks
onEndCall(s) ==
  [s EXCEPT !.mounted = FALSE, !.onEndCalled = TRUE,
            !.vadAnimation = FALSE,
            !.stream = IF @ = "live" THEN "stopped" ELSE @]

\* ---- Recorder ----
\* variant: the Recorder's state is not tested before it is started
startRecordingAlways(s) ==
  IF s.mediaRecorder # "null" /\ s.stream = "live"
  THEN [s EXCEPT !.audioChunks = 0, !.mediaRecorder = "recording",
                 !.isRecording = TRUE]
  ELSE s

startRecording(s) ==
  IF s.mediaRecorder = "inactive" /\ s.stream = "live"
  THEN [s EXCEPT !.audioChunks = 0, !.mediaRecorder = "recording",
                 !.isRecording = TRUE]
  ELSE s

stopRecording(s) ==
  IF s.mediaRecorder = "recording"
  THEN [s EXCEPT !.mediaRecorder = "inactive", !.isRecording = FALSE,
                 !.stopEvent = TRUE]
  ELSE s

\* ---- VAD frame and barge-in ----
\* variant: the silence branch does not test the length of the speech run
checkVoiceActivityNoMinimum(s, loud) ==
  IF ~s.analyser \/ s.cbStatus # "active"
  THEN [s EXCEPT !.vadAnimation = FALSE]
  ELSE
    LET r == [s EXCEPT !.vadAnimation = TRUE] IN
    IF loud
    THEN
      LET start == IF r.speechStartTime = Null THEN r.now
                   ELSE r.speechStartTime
          a == [r EXCEPT !.speechStartTime = start, !.lastSpeechTime = r.now]
      IN IF a.audioRef # 0 /\ ~a.isInterruption
            /\ a.now - start > MIN_SPEECH_DURATION
         THEN [a EXCEPT !.isInterruption = TRUE, !.fadeOut = TRUE,
                        !.fadeSteps = 0, !.bargedIn = TRUE]
         ELSE a
    ELSE
      IF /\ r.speechStartTime # Null
         /\ r.now - r.lastSpeechTime > SILENCE_DURATION
         /\ r.isRecording
      THEN stopRecording(
             [r EXCEPT !.speechStartTime = Null,
                       !.utterances =
                          Append(@, r.lastSpeechTime - r.speechStartTime)])
      ELSE r

\* variant: the speech start is not cleared when the Recorder is stopped
checkVoiceActivityKeepsStart(s, loud) ==
  IF ~s.analyser \/ s.cbStatus # "active"
  THEN [s EXCEPT !.vadAnimation = FALSE]
  ELSE
    LET r == [s EXCEPT !.vadAnimation = TRUE] IN
    IF loud
    THEN
      LET start == IF r.speechStartTime = Null THEN r.now
                   ELSE r.speechStartTime
          a == [r EXCEPT !.speechStartTime = start, !.lastSpeechTime = r.now]
      IN IF a.audioRef # 0 /\ ~a.isInterruption
            /\ a.now - start > MIN_SPEECH_DURATION
         THEN [a EXCEPT !.isInterruption = TRUE, !.fadeOut = TRUE,
                        !.fadeSteps = 0, !.bargedIn = TRUE]
         ELSE a
    ELSE
      IF /\ r.speechStartTime # Null
         /\ r.now - r.lastSpeechTime > SILENCE_DURATION
         /\ r.isRecording
         /\ r.lastSpeechTime - r.speechStartTime > MIN_SPEECH_DURATION
      THEN stopRecording(
             [r EXCEPT !.utterances =
                          Append(@, r.lastSpeechTime - r.speechStartTime)])
      ELSE r

checkVoiceActivity(s, loud) ==
  IF ~s.analyser \/ s.cbStatus # "active"
  THEN [s EXCEPT !.vadAnimation = FALSE]
  ELSE
    LET r == [s EXCEPT !.vadAnimation = TRUE] IN
    IF loud
    THEN
      LET start == IF r.speechStartTime = Null THEN r.now
                   ELSE r.speechStartTime
          a == [r EXCEPT !.speechStartTime = start, !.lastSpeechTime = r.now]
      IN IF a.audioRef # 0 /\ ~a.isInterruption
            /\ a.now - start > MIN_SPEECH_DURATION
         THEN [a EXCEPT !.isInterruption = TRUE, !.fadeOut = TRUE,
                        !.fadeSteps = 0, !.bargedIn = TRUE]
         ELSE a
    ELSE
      IF /\ r.speechStartTime # Null
         /\ r.now - r.lastSpeechTime > SILENCE_DURATION
         /\ r.isRecording
         /\ r.lastSpeechTime - r.speechStartTime > MIN_SPEECH_DURATION
      THEN stopRecording(
             [r EXCEPT !.speechStartTime = Null,
                       !.utterances =
                          Append(@, r.lastSpeechTime - r.speechStartTime)])
      ELSE r

startVADMonitoring(s, loud) ==
  IF ~s.analyser THEN s
  ELSE checkVoiceActivity(
         [s EXCEPT !.speechStartTime = Null, !.lastSpeechTime = s.now], loud)

\* pause() of an element whose play() is still pending rejects that play()
pauseAudio(st) ==
  CASE st = "playing" -> "paused"
    [] st = "starting" -> "aborted"
    [] OTHER -> st

\* variant: the fade clears the interrupt flag when it stops the playback
fadeOutTickResetsFlag(s) ==
  IF s.audioRef # 0
  THEN
    LET v == IF s.volume - FADE_STEP < 0 THEN 0 ELSE s.volume - FADE_STEP IN
    IF v <= FADE_FLOOR
    THEN setUiPhase(
           [s EXCEPT !.volume = v, !.fadeSteps = @ + 1,
                     !.audio[s.audioRef] = pauseAudio(@),
                     !.audioRef = 0, !.fadeOut = FALSE,
                     !.isInterruption = FALSE],
           "listening")
    ELSE [s EXCEPT !.volume = v, !.fadeSteps = @ + 1]
  ELSE [s EXCEPT !.fadeOut = FALSE]

\* variant: the playback is stopped only below the floor, not at it
fadeOutTickBelowFloor(s) ==
  IF s.audioRef # 0
  THEN
    LET v == IF s.volume - FADE_STEP < 0 THEN 0 ELSE s.volume - FADE_STEP IN
    IF v < FADE_FLOOR
    THEN setUiPhase(
           [s EXCEPT !.volume = v, !.fadeSteps = @ + 1,
                     !.audio[s.audioRef] = pauseAudio(@),
                     !.audioRef = 0, !.fadeOut = FALSE],
           "listening")
    ELSE [s EXCEPT !.volume = v, !.fadeSteps = @ + 1]
  ELSE [s EXCEPT !.fadeOut = FALSE]

fadeOutTick(s) ==
  IF s.audioRef # 0
  THEN
    LET v == IF s.volume - FADE_STEP < 0 THEN 0 ELSE s.volume - FADE_STEP IN
    IF v <= FADE_FLOOR
    THEN setUiPhase(
           [s EXCEPT !.volume = v, !.fadeSteps = @ + 1,
                     !.audio[s.audioRef] = pauseAudio(@),
                     !.audioRef = 0, !.fadeOut = FALSE],
           "listening")
    ELSE [s EXCEPT !.volume = v, !.fadeSteps = @ + 1]
  ELSE [s EXCEPT !.fadeOut = FALSE]

\* ---- startContinuousListening, after getUserMedia resolves ----
startContinuousListening(s, loud) ==
  LET a == [s EXCEPT !.stream = "live", !.audioContext = "running",
                     !.analyser = TRUE, !.mediaRecorder = "inactive",
                     !.audioChunks = 0]
  IN setUiPhase(startRecording(startVADMonitoring(a, loud)), "listening")

\* ---- continuations of the two callers of playTTS ----
turnFinally(s) ==
  listenIfActive([s EXCEPT !.isInterruption = FALSE, !.isProcessing = FALSE])

\* mediaRecorder.onstop after processUserAudio returned (or was skipped)
onstopRestart(s) ==
  IF cbActive(s) /\ s.stream # "null" THEN startRecording(s) ELSE s

turnDone(s) ==
  onstopRestart([turnFinally(s) EXCEPT !.pcTurn = "idle",
                                       !.inFlight = @ - 1])

resolved(s, c) ==
  LET r == [s EXCEPT !.ttsPc[c] = "resolved"] IN
  IF c = "start" THEN [r EXCEPT !.pcStart = "mic"] ELSE turnDone(r)

\* ---- playTTS ----
playTTS(s, c, empty) ==
  LET a == [s EXCEPT !.bargedIn = FALSE] IN
  IF empty THEN resolved(a, c)
  ELSE [a EXCEPT !.ttsPc[c] = "synth"]

FreeAudio(s) == CHOOSE i \in AudioIds :
                  /\ s.audio[i] = "none"
                  /\ \A j \in AudioIds : j < i => s.audio[j] # "none"

ttsCatch(s, c) == resolved(listenIfActive(s), c)

synthDone(s, c, ok) ==
  IF ~ok THEN ttsCatch(s, c)
  ELSE IF s.isInterruption THEN resolved(s, c)
  ELSE LET id == FreeAudio(s) IN
       setUiPhase(
         [s EXCEPT !.audio[id] = "starting", !.audioRef = id,
                   !.volume = FULL_VOLUME, !.fadeSteps = 0,
                   !.ttsAudio[c] = id, !.ttsPc[c] = "starting"],
         "speaking")

\* variant: the promise resolves as soon as playback has started
playResolvedEarly(s, c) ==
  resolved([s EXCEPT !.audio[s.ttsAudio[c]] = "playing"], c)

\* audio.play() resolved: the async body of playTTS ends, the promise stays
\* pending until onended / onerror
playResolved(s, c) ==
  [s EXCEPT !.audio[s.ttsAudio[c]] = "playing", !.ttsPc[c] = "playing"]

playRejected(s, c) ==
  ttsCatch([s EXCEPT !.audio[s.ttsAudio[c]] = "failed"], c)

\* audio.onended / audio.onerror of element id, created by caller c's call
audioDone(s, c, id, how) ==
  LET a == listenIfActive([s EXCEPT !.audio[id] = how, !.audioRef = 0])
  IN IF a.ttsPc[c] \in {"starting", "playing"} /\ a.ttsAudio[c] = id
     THEN resolved(a, c)
     ELSE a

\* ---- processUserAudio ----
\* (a call that finds isProcessing set returns at once, and onstop, which
\* awaited it, goes on to restart the recorder)
processUserAudio(s) ==
  IF s.isProcessing THEN onstopRestart(s)
  ELSE setUiPhase([s EXCEPT !.isProcessing = TRUE, !.pcTurn = "stt",
                            !.turns = @ + 1, !.inFlight = @ + 1,
                            !.sttData = "none", !.aiData = "none"],
                  "transcribing")

\* variant: the length of the transcription is not tested
sttDoneNoLengthCheck(s, res) ==
  LET r == [s EXCEPT !.sttData = res] IN
  CASE res \in {"valid", "short"} ->
         setTranscript(setUiPhase([r EXCEPT !.pcTurn = "ai"], "thinking"),
                       "user")
    [] res = "error" ->
         turnDone(setUiPhase([r EXCEPT !.isProcessing = FALSE], "listening"))
    [] OTHER -> turnDone(toast(r, "Error processing audio"))

\* res: the reply has a text of two characters or more ("valid"), an empty
\* or shorter text ("short"), an error and no text ("error"), or the
\* request or the parsing of the reply throws ("throw")
sttDone(s, res) ==
  LET r == [s EXCEPT !.sttData = res] IN
  CASE res = "valid" ->
         setTranscript(setUiPhase([r EXCEPT !.pcTurn = "ai"], "thinking"),
                       "user")
    [] res \in {"short", "error"} ->
         turnDone(setUiPhase([r EXCEPT !.isProcessing = FALSE], "listening"))
    [] OTHER -> turnDone(toast(r, "Error processing audio"))

playResponse(s, empty) ==
  playTTS([s EXCEPT !.isInterruption = FALSE, !.pcTurn = "tts"],
          "turn", empty)

aiDone(s, ok, delay, empty) ==
  IF ~ok THEN turnDone(toast([s EXCEPT !.aiData = "error"],
                             "Error processing audio"))
  ELSE LET a == setTranscript([s EXCEPT !.aiData = "ok"], "assistant") IN
       IF delay THEN [a EXCEPT !.pcTurn = IF empty THEN "delayEmpty"
                                          ELSE "delay"]
       ELSE playResponse(a, empty)

\* ---- mediaRecorder.onstop ----
\* variant: processUserAudio is not awaited before the recorder restarts
onstopNoAwait(s, final, big) ==
  LET a == [s EXCEPT !.stopEvent = FALSE,
                     !.audioChunks = IF final /\ @ < MaxChunks
                                     THEN @ + 1 ELSE @]
  IN IF a.audioChunks = 0 \/ a.isProcessing
     THEN onstopRestart(a)
     ELSE LET b == [a EXCEPT !.audioChunks = 0] IN
          IF big THEN onstopRestart(processUserAudio(b))
          ELSE onstopRestart(b)

onstop(s, final, big) ==
  LET a == [s EXCEPT !.stopEvent = FALSE,
                     !.audioChunks = IF final /\ @ < MaxChunks
                                     THEN @ + 1 ELSE @]
  IN IF a.audioChunks = 0 \/ a.isProcessing
     THEN onstopRestart(a)
     ELSE LET b == [a EXCEPT !.audioChunks = 0] IN
          IF big THEN processUserAudio(b) ELSE onstopRestart(b)

\* ---- endCall ----
endCallFinish(s) ==
  onEndCall([setStatus(s, "ended") EXCEPT !.pcEnd = "done"])

endCall(s) ==
  LET a == [s EXCEPT !.vadAnimation = FALSE,
                     !.stream = IF @ = "live" THEN "stopped" ELSE @,
                     !.audioContext = IF @ = "running" THEN "closed" ELSE @]
  IN IF a.conversationId THEN [a EXCEPT !.pcEnd = "notify"]
     ELSE endCallFinish(a)

\* ---- startConversation ----
startDone(s, ok, empty) ==
  IF ~ok THEN onEndCall(toast([s EXCEPT !.pcStart = "failed"],
                              "Connection failed"))
  ELSE LET a == setStatus(setTranscript(
                  [s EXCEPT !.conversationId = TRUE,
                            !.transcript = IF s.mounted THEN <<>> ELSE @],
                  "assistant"), "active")
       IN playTTS(setUiPhase([a EXCEPT !.pcStart = "greet"], "thinking"),
                  "start", empty)

toggleMute(s) ==
  [s EXCEPT !.isMuted = ~@, !.cbMuted = IF s.rebind THEN ~s.isMuted ELSE @]

\* ---- the texts handed to planSpeech ----
Chars == {"a", " ", ".", ",", "?", "!", "(", ")", "*", "_"}

Texts == UNION {[1..n -> Chars] : n \in 0..MaxLen}

Emotions == {"thoughtful", "playful", "affectionate", "neutral"}

\* "Hello, how are you?"
HelloText ==
  <<"H", "e", "l", "l", "o", ",", " ", "h", "o", "w", " ", "a", "r", "e",
    " ", "y", "o", "u", "?">>

\* "Aww... that sounds tough, tell me more"
AwwText ==
  <<"A", "w", "w", ".", ".", ".", " ", "t", "h", "a", "t", " ", "s", "o",
    "u", "n", "d", "s", " ", "t", "o", "u", "g", "h", ",", " ", "t", "e",
    "l", "l", " ", "m", "e", " ", "m", "o", "r", "e">>

\* the two responses of the spec's scenarios
ScenarioTexts == {HelloText, AwwText}

NoPlan == [originalText |-> <<>>, spokenText |-> <<>>, segments |-> <<>>,
           planned |-> FALSE]

\* ---- planSpeech (voice-orchestrator/speechPlanner.ts) ----
\* A text is a sequence of one-character strings.
Openers == {"(", "[", "{"}

Closers == {")", "]", "}"}

Punct == {".", ",", "?", "!"}

RECURSIVE RemoveBracketed(_)
\* replace(/[\(\[\{].*?[\)\]\}]/gs, ''): an opener and everything up to the
\* nearest closer after it
RemoveBracketed(t) ==
  IF t = <<>> THEN <<>>
  ELSE IF Head(t) \in Openers /\ \E j \in 2..Len(t) : t[j] \in Closers
       THEN LET j == CHOOSE j \in 2..Len(t) :
                       /\ t[j] \in Closers
                       /\ \A k \in 2..(j - 1) : t[k] \notin Closers
            IN RemoveBracketed(SubSeq(t, j + 1, Len(t)))
       ELSE <<Head(t)>> \o RemoveBracketed(Tail(t))

RECURSIVE ReplaceMarks(_)
\* replace(/\*/g, ''), replace(/_/g, ' '), replace(/#/g, '')
ReplaceMarks(t) ==
  IF t = <<>> THEN <<>>
  ELSE LET c == Head(t) IN
       (IF c \in {"*", "#"} THEN <<>>
        ELSE IF c = "_" THEN <<" ">> ELSE <<c>>) \o ReplaceMarks(Tail(t))

RECURSIVE CollapseSpaces(_)
\* replace(/\s+/g, ' ')
CollapseSpaces(t) ==
  IF Len(t) < 2 THEN t
  ELSE IF t[1] = " " /\ t[2] = " " THEN CollapseSpaces(Tail(t))
       ELSE <<Head(t)>> \o CollapseSpaces(Tail(t))

RECURSIVE TrimLeft(_)
TrimLeft(t) ==
  IF t # <<>> /\ Head(t) = " " THEN TrimLeft(Tail(t)) ELSE t

RECURSIVE TrimRight(_)
TrimRight(t) ==
  IF t # <<>> /\ t[Len(t)] = " "
  THEN TrimRight(SubSeq(t, 1, Len(t) - 1)) ELSE t

\* String.prototype.trim
Trim(t) == TrimRight(TrimLeft(t))

CleanText(text) == Trim(CollapseSpaces(ReplaceMarks(RemoveBracketed(text))))

AsText(str) ==
  CASE str = "hmm..." -> <<"h", "m", "m", ".", ".", ".">>
    [] str = "well..." -> <<"w", "e", "l", "l", ".", ".", ".">>
    [] str = "like..." -> <<"l", "i", "k", "e", ".", ".", ".">>
    [] str = "haha," -> <<"h", "a", "h", "a", ",">>
    [] str = "wait," -> <<"w", "a", "i", "t", ",">>
    [] str = "you know," -> <<"y", "o", "u", " ", "k", "n", "o", "w", ",">>
    [] str = "acha," -> <<"a", "c", "h", "a", ",">>
    [] str = "so," -> <<"s", "o", ",">>
    [] str = "basically," ->
         <<"b", "a", "s", "i", "c", "a", "l", "l", "y", ",">>

\* fillers[currentEmotion] || fillers.neutral
Fillers(currentEmotion) ==
  CASE currentEmotion = "thoughtful" -> {"hmm...", "well...", "like..."}
    [] currentEmotion = "playful" -> {"haha,", "wait,", "you know,"}
    [] currentEmotion = "affectionate" -> {"hmm...", "acha,"}
    [] OTHER -> {"so,", "basically,"}

\* the filler Math.random() selects: none ("") or one of the emotion's list
FillerChoices(currentEmotion) == {""} \cup Fillers(currentEmotion)

\* variant: every mark is a separator of its own
PunctRunOfOne(t) == 1

\* the length of the run of punctuation marks at the head of t
PunctRun(t) ==
  CHOOSE n \in 1..Len(t) :
    /\ \A k \in 1..n : t[k] \in Punct
    /\ n = Len(t) \/ t[n + 1] \notin Punct

RECURSIVE SplitFrom(_, _)
\* split(/([.,?!])+/): the pieces between runs of marks, and for each run
\* the capture of the group's last repetition, that is the run's last mark
SplitFrom(t, cur) ==
  IF t = <<>> THEN <<cur>>
  ELSE IF Head(t) \in Punct
       THEN LET n == PunctRun(t) IN
            <<cur, <<t[n]>>>> \o SplitFrom(SubSeq(t, n + 1, Len(t)), <<>>)
       ELSE SplitFrom(Tail(t), Append(cur, Head(t)))

NotBlank(piece) == Trim(piece) # <<>>

\* .filter(s => s.trim().length > 0)
RawSegments(spoken) == SelectSeq(SplitFrom(spoken, <<>>), NotBlank)

\* getPace, in hundredths
getPace(index) == IF index = 0 THEN 95 ELSE 105

\* variant: the segment's text is not trimmed
SegmentUntrimmed(text, pause, index) ==
  [text |-> text, pauseAfterMs |-> pause, pace |-> getPace(index)]

Segment(text, pause, index) ==
  [text |-> Trim(text), pauseAfterMs |-> pause, pace |-> getPace(index)]

RECURSIVE SegmentLoop(_, _, _)
\* the for loop over rawSegments and the push after it
SegmentLoop(parts, currentSegment, segmentIndex) ==
  IF parts = <<>>
  THEN IF Trim(currentSegment) # <<>>
       THEN <<Segment(currentSegment, 0, segmentIndex)>>
       ELSE <<>>
  ELSE LET part == Head(parts) IN
       IF part \in {<<".">>, <<"?">>, <<"!">>}
       THEN <<Segment(currentSegment \o part, 600, segmentIndex)>>
              \o SegmentLoop(Tail(parts), <<>>, segmentIndex + 1)
       ELSE IF part = <<",">>
       THEN <<Segment(currentSegment \o part, 300, segmentIndex)>>
              \o SegmentLoop(Tail(parts), <<>>, segmentIndex + 1)
       ELSE SegmentLoop(Tail(parts), currentSegment \o part, segmentIndex)

planSpeech(text, currentEmotion, filler) ==
  LET cleaned == CleanText(text)
      spoken == IF filler = "" THEN cleaned
                ELSE AsText(filler) \o <<" ">> \o cleaned
  IN [originalText |-> text, spokenText |-> spoken,
      segments |-> SegmentLoop(RawSegments(spoken), <<>>, 0)]

\* ---- the orchestrator's emotional state ----
\* familiarity_score and attachment_level are kept in hundredths: the
\* values the code produces are 0.1 + 0.02 k and 0.3 + 0.01 k up to the
\* rounding of the last bit, and Math.min(1, x) cuts them at exactly 1
ONE == 100

FAMILIARITY_STEP == 2

ATTACHMENT_STEP == 1

DetectedEmotions == {"neutral", "happy", "sad"}

NoRow ==
  [familiarity_score |-> Null, attachment_level |-> Null,
   current_emotion |-> "none"]

\* the row the start action inserts
InitialState ==
  [familiarity_score |-> 10, attachment_level |-> 30,
   current_emotion |-> "curious"]

Min(a, b) == IF a < b THEN a ELSE b

\* the row updateEmotionalState would write without Math.min
updateEmotionalStateUncapped(state, detectedEmotion) ==
  [familiarity_score |-> state.familiarity_score + FAMILIARITY_STEP,
   attachment_level |-> state.attachment_level + ATTACHMENT_STEP,
   current_emotion |-> state.current_emotion]

\* the row updateEmotionalState writes, from the row it has read
updateEmotionalState(state, detectedEmotion) ==
  [familiarity_score |-> Min(ONE, state.familiarity_score + FAMILIARITY_STEP),
   attachment_level |-> Min(ONE, state.attachment_level + ATTACHMENT_STEP),
   current_emotion |->
     IF detectedEmotion = "happy" THEN "joyful"
     ELSE IF detectedEmotion = "sad" THEN "caring"
     ELSE state.current_emotion]

\* ---- the state machine ----
InitCommon ==
  /\ status = "connecting" /\ uiPhase = "connecting" /\ isMuted = FALSE
  /\ transcript = <<>> /\ mounted = TRUE
  /\ cbStatus = "connecting" /\ cbMuted = FALSE
  /\ conversationId = FALSE /\ mediaRecorder = "null" /\ audioChunks = 0
  /\ isProcessing = FALSE /\ audioRef = 0 /\ isInterruption = FALSE
  /\ audioContext = "null" /\ analyser = FALSE /\ stream = "null"
  /\ isRecording = FALSE /\ vadAnimation = FALSE
  /\ speechStartTime = Null /\ lastSpeechTime = 0 /\ now = 0
  /\ fadeOut = FALSE /\ volume = FULL_VOLUME
  /\ audio = [i \in AudioIds |-> "none"]
  /\ pcStart = "fetch" /\ pcTurn = "idle" /\ pcEnd = "idle"
  /\ ttsPc = [c \in Callers |-> "idle"]
  /\ ttsAudio = [c \in Callers |-> 0]
  /\ stopEvent = FALSE /\ turns = 0 /\ inFlight = 0
  /\ onEndCalled = FALSE
  /\ micPos = 0 /\ utterances = <<>> /\ toasts = <<>> /\ fadeSteps = 0
  /\ bargedIn = FALSE
  /\ sttData = "none" /\ aiData = "none"
  /\ plan = NoPlan

\* ---- loudness scripts: what the analyser reports, frame by frame ----
Frame(dt, loud) == [dt |-> dt, loud |-> loud]

Rep(n, e) == [i \in 1..n |-> e]

\* spans between the first and the last loud frame of a burst
LoudSpans == {0, 200, 250, 300}

\* q silent frames, a burst of the given span, m silent frames
BurstScript(q, span, m) ==
  Rep(q, Frame(FrameMs, FALSE)) \o <<Frame(FrameMs, TRUE)>>
    \o (IF span > 0 THEN <<Frame(span, TRUE)>> ELSE <<>>)
    \o Rep(m, Frame(FrameMs, FALSE))

\* n loud frames, MAX_RECORDING_MS / 3 apart
LoudScript(n) == Rep(n, Frame(MAX_RECORDING_MS \div 3, TRUE))

\* spans of a burst shorter than MIN_SPEECH_DURATION
ShortSpans == {0, 200}

\* a short burst, gap silent frames, a second short burst, m silent frames
TwoBurstScript(span1, gap, span2, m) ==
  BurstScript(0, span1, gap) \o BurstScript(0, span2, m)

TwoBurstScripts ==
  {TwoBurstScript(span1, gap, span2, m) :
     span1 \in ShortSpans, gap \in 2..MaxQuiet, span2 \in ShortSpans,
     m \in 0..MaxQuiet}

\* what the user does after an utterance: one loud frame, two loud frames
\* with a silent one between them, or a run spanning 300 ms and then silence
AfterUtterance ==
  { <<Frame(FrameMs, TRUE)>>,
    <<Frame(FrameMs, TRUE), Frame(FrameMs, FALSE), Frame(FrameMs, TRUE)>>,
    <<Frame(FrameMs, TRUE), Frame(300, TRUE)>> \o Rep(2, Frame(FrameMs, FALSE)) }

\* an utterance of 300 ms and the silence that completes it, then one of
\* the above while the turn is processed and its response played
InterruptScripts == {BurstScript(0, 300, 2) \o tail : tail \in AfterUtterance}

Scripts ==
  {BurstScript(q, span, m) : q \in 0..1, span \in LoudSpans, m \in 0..MaxQuiet}
    \cup {Rep(n, Frame(FrameMs, FALSE)) : n \in 1..MaxQuiet}
    \cup {LoudScript(n) : n \in 1..MaxLoud}
    \cup TwoBurstScripts
    \cup InterruptScripts

NoText == /\ planText = <<>> /\ planEmotion = "neutral"

\* no message request is in progress
NoRequest ==
  /\ msgPc = "idle" /\ emotionalState = NoRow /\ currentState = NoRow
  /\ emotionalContext = "neutral"

NoState == NoRequest /\ emotional_states = NoRow

Init == InitCommon /\ rebind = FALSE /\ mic = <<>> /\ NoText /\ NoState

InitLive == InitCommon /\ rebind = TRUE /\ mic = <<>> /\ NoText /\ NoState

InitAll == InitCommon /\ rebind \in BOOLEAN /\ mic = <<>> /\ NoText /\ NoState

InitVAD == InitCommon /\ rebind = TRUE /\ mic \in Scripts /\ NoText /\ NoState

\* the orchestrator is handed a response text and its emotion
InitPlan ==
  /\ InitCommon /\ rebind = FALSE /\ mic = <<>>
  /\ planText \in Texts \cup ScenarioTexts /\ planEmotion \in Emotions
  /\ NoState

\* the start action has created the conversation; its insert of the
\* emotional_states row is not checked, so the row may be missing
InitState ==
  /\ InitCommon /\ rebind = FALSE /\ mic = <<>> /\ NoText /\ NoRequest
  /\ emotional_states \in {InitialState, NoRow}

StartDone ==
  /\ pcStart = "fetch"
  /\ \E ok \in BOOLEAN, empty \in BOOLEAN : Set(startDone(Cur, ok, empty))

SynthDone ==
  \E c \in Callers, ok \in BOOLEAN :
    /\ ttsPc[c] = "synth"
    /\ Set(synthDone(Cur, c, ok))

PlayResolved ==
  \E c \in Callers :
    /\ ttsPc[c] = "starting" /\ audio[ttsAudio[c]] = "starting"
    /\ Set(playResolved(Cur, c))

PlayRejected ==
  \E c \in Callers :
    /\ ttsPc[c] = "starting" /\ audio[ttsAudio[c]] \in {"starting", "aborted"}
    /\ Set(playRejected(Cur, c))

AudioEnded ==
  \E c \in Callers, id \in AudioIds :
    /\ audio[id] = "playing" /\ ttsAudio[c] = id
    /\ Set(audioDone(Cur, c, id, "ended"))

AudioError ==
  \E c \in Callers, id \in AudioIds :
    /\ audio[id] = "playing" /\ ttsAudio[c] = id
    /\ Set(audioDone(Cur, c, id, "failed"))

\* The loudness the analyser reports at the next frames: any, or, when a
\* script is given, the script's next entry.  A disabled (muted) track
\* delivers silence.
Heard ==
  IF mic = <<>>
  THEN {[dt |-> FrameMs, loud |-> l, pos |-> 0] : l \in BOOLEAN}
  ELSE {[dt |-> mic[i].dt, loud |-> mic[i].loud, pos |-> i] :
          i \in {micPos + 1} \cap DOMAIN mic}

MicGranted ==
  /\ pcStart = "mic"
  /\ \E h \in Heard :
       Set(startContinuousListening(
             [Cur EXCEPT !.pcStart = "done", !.micPos = h.pos,
                         !.now = IF mic = <<>> THEN @ ELSE @ + h.dt],
             h.loud /\ ~isMuted))

\* startContinuousListening's catch: getUserMedia rejected, or the stream
\* was obtained and creating the audio context threw
micFailed(s, gotStream) ==
  toast([s EXCEPT !.stream = IF gotStream THEN "live" ELSE @],
        "Microphone access required")

MicDenied ==
  /\ pcStart = "mic"
  /\ \E gotStream \in BOOLEAN :
       Set(micFailed([Cur EXCEPT !.pcStart = "done"], gotStream))

DataAvailable ==
  /\ mediaRecorder = "recording" /\ stream = "live"
  /\ audioChunks < MaxChunks
  /\ Set([Cur EXCEPT !.audioChunks = @ + 1])

\* a MediaRecorder whose tracks have all ended stops by itself and fires
\* 'stop' (and start() on such a stream throws, see startRecording)
TracksEnded ==
  /\ mediaRecorder = "recording" /\ stream = "stopped"
  /\ Set([Cur EXCEPT !.mediaRecorder = "inactive", !.stopEvent = TRUE])

OnStop ==
  /\ stopEvent
  /\ \E final \in BOOLEAN, big \in BOOLEAN :
       /\ (big /\ ~isProcessing) => turns < MaxTurns
       /\ Set(onstop(Cur, final, big))

SttDone ==
  /\ pcTurn = "stt"
  /\ \E res \in {"valid", "short", "error", "throw"} : Set(sttDone(Cur, res))

AiDone ==
  /\ pcTurn = "ai"
  /\ \E ok \in BOOLEAN, delay \in BOOLEAN, empty \in BOOLEAN :
       Set(aiDone(Cur, ok, delay, empty))

ThinkingDelayDone ==
  /\ pcTurn \in {"delay", "delayEmpty"}
  /\ Set(playResponse(Cur, pcTurn = "delayEmpty"))

EndCall ==
  /\ mounted /\ pcEnd = "idle"
  /\ Set(endCall(Cur))

EndNotified ==
  /\ pcEnd = "notify"
  /\ \E ok \in BOOLEAN :
       Set(IF ok THEN endCallFinish(Cur) ELSE [Cur EXCEPT !.pcEnd = "idle"])

ToggleMute ==
  /\ mounted
  /\ Set(toggleMute(Cur))

VADFrame ==
  /\ vadAnimation /\ ~fadeOut
  /\ mic = <<>> => now < MaxFrames * FrameMs
  /\ \E h \in Heard :
       Set(checkVoiceActivity(
             [Cur EXCEPT !.now = @ + h.dt, !.micPos = h.pos],
             h.loud /\ ~isMuted))

FadeTick ==
  /\ fadeOut
  /\ Set(fadeOutTick(Cur))

\* the orchestrator plans the speech of a response
PlanSpeech ==
  /\ ~plan.planned
  /\ \E filler \in FillerChoices(planEmotion) :
       LET p == planSpeech(planText, planEmotion, filler) IN
       plan' = [originalText |-> p.originalText, spokenText |-> p.spokenText,
                segments |-> p.segments, planned |-> TRUE]
  /\ UNCHANGED <<planText, planEmotion>>
  /\ UNCHANGED << status, uiPhase, isMuted, transcript, mounted,
           cbStatus, cbMuted, rebind,
           conversationId, mediaRecorder, audioChunks, isProcessing,
           audioRef, isInterruption, audioContext, analyser, stream,
           isRecording, vadAnimation,
           speechStartTime, lastSpeechTime, now,
           fadeOut, volume, audio,
           pcStart, pcTurn, pcEnd, ttsPc, ttsAudio, stopEvent,
           turns, inFlight, onEndCalled,
           mic, micPos, utterances, toasts, fadeSteps, sttData, aiData,
           bargedIn >>
  /\ UNCHANGED serverVars

Next ==
  \/ StartDone \/ SynthDone \/ PlayResolved \/ PlayRejected
  \/ AudioEnded \/ AudioError \/ MicGranted \/ MicDenied
  \/ DataAvailable \/ TracksEnded \/ OnStop
  \/ SttDone \/ AiDone \/ ThinkingDelayDone
  \/ EndCall \/ EndNotified \/ ToggleMute

NextLive == Next \/ VADFrame \/ FadeTick

Spec == Init /\ [][Next]_vars

SpecLive == InitLive /\ [][NextLive]_vars

SpecAll == InitAll /\ [][NextLive]_vars

\* a call in which the user only speaks (no mute, no hang-up), the
\* microphone delivering one of the scripts
NextVAD ==
  \/ StartDone \/ SynthDone \/ PlayResolved \/ PlayRejected
  \/ AudioEnded \/ AudioError \/ MicGranted \/ MicDenied
  \/ DataAvailable \/ OnStop
  \/ SttDone \/ AiDone \/ ThinkingDelayDone
  \/ VADFrame \/ FadeTick

SpecVAD == InitVAD /\ [][NextVAD]_vars

SpecPlan == InitPlan /\ [][PlanSpeech]_vars

\* ---- the orchestrator's message action ----
clientVars ==
  << status, uiPhase, isMuted, transcript, mounted,
     cbStatus, cbMuted, rebind,
     conversationId, mediaRecorder, audioChunks, isProcessing,
     audioRef, isInterruption, audioContext, analyser, stream,
     isRecording, vadAnimation,
     speechStartTime, lastSpeechTime, now,
     fadeOut, volume, audio,
     pcStart, pcTurn, pcEnd, ttsPc, ttsAudio, stopEvent,
     turns, inFlight, onEndCalled,
     mic, micPos, utterances, toasts, fadeSteps, sttData, aiData, bargedIn,
     planText, planEmotion, plan >>

\* a message request arrives (the client sends the next one only after the
\* previous one has been answered: processUserAudio returns at once while
\* isProcessingRef is set); the handler reads the emotional state and asks
\* for the response
MessageReceived ==
  /\ msgPc \in {"idle", "done", "failed"}
  /\ \E detectedEmotion \in DetectedEmotions :
       emotionalContext' = detectedEmotion
  /\ emotionalState' = emotional_states
  /\ currentState' = NoRow
  /\ msgPc' = "generate"
  /\ UNCHANGED emotional_states
  /\ UNCHANGED clientVars

\* generateAIResponse returns, or throws and the request fails; on success
\* updateEmotionalState is called and selects the row
GenerateDone ==
  /\ msgPc = "generate"
  /\ \E ok \in BOOLEAN : msgPc' = IF ok THEN "select" ELSE "failed"
  /\ UNCHANGED << emotional_states, emotionalState, currentState,
                  emotionalContext >>
  /\ UNCHANGED clientVars

\* the select of updateEmotionalState returns: without a row the function
\* returns and the message is answered
StateSelected ==
  /\ msgPc = "select"
  /\ currentState' = emotional_states
  /\ msgPc' = IF emotional_states = NoRow THEN "done" ELSE "update"
  /\ UNCHANGED << emotional_states, emotionalState, emotionalContext >>
  /\ UNCHANGED clientVars

\* the update of updateEmotionalState is applied and the message answered
StateUpdated ==
  /\ msgPc = "update"
  /\ emotional_states' = updateEmotionalState(currentState, emotionalContext)
  /\ msgPc' = "done"
  /\ UNCHANGED << emotionalState, currentState, emotionalContext >>
  /\ UNCHANGED clientVars

NextState ==
  \/ MessageReceived \/ GenerateDone \/ StateSelected \/ StateUpdated

SpecState == InitState /\ [][NextState]_vars

\* ---- derived notions used by the properties ----
\* the spec's TurnPhase: uiPhase, with Ended taken from status
TurnPhase == IF status = "ended" THEN "ended" ELSE uiPhase

Active(i) == audio[i] \in {"starting", "playing"}

Pending(c) == ttsPc[c] \in {"synth", "starting", "playing"}

\* a step of the program itself: a completion of a remote call, a media
\* event or a timer tick (not a user gesture, an audio frame or a chunk)
SystemStep ==
  \/ StartDone \/ SynthDone \/ PlayResolved \/ PlayRejected
  \/ AudioEnded \/ AudioError \/ MicGranted \/ MicDenied
  \/ TracksEnded \/ OnStop \/ SttDone \/ AiDone \/ ThinkingDelayDone
  \/ EndNotified \/ FadeTick

\* nothing is left that the program could still do by itself
Quiescent == ~ENABLED SystemStep

\* a barge-in fade has paused an element that was playing
FadeStopped == \E i \in AudioIds : audio[i] = "paused"

TableEdges ==
  { <<"connecting", "listening">>, <<"listening", "transcribing">>,
    <<"transcribing", "listening">>, <<"transcribing", "thinking">>,
    <<"thinking", "speaking">>, <<"speaking", "listening">> }

C3_OnePlaybackSession ==
  Cardinality({i \in AudioIds : Active(i)}) <= 1

\* a later playback is running after an earlier one has stopped
C3_Witness ==
  \E i, j \in AudioIds :
    i < j /\ audio[i] \in {"ended", "failed", "paused"} /\ audio[j] = "playing"

C7_PhaseFollowsTable ==
  [][TurnPhase' # TurnPhase =>
       (TurnPhase' = "ended" \/ <<TurnPhase, TurnPhase'>> \in TableEdges)]_vars

\* ---- C8 ----
\* C8: a turn whose transcription, response, synthesis and playback all
\* succeed and which is not interrupted ends with the phase back at
\* Listening and, the stream being live, the Recorder capturing again
\* (the call being active and not muted).
C8_SuccessfulTurnReturnsToListening ==
  [][ ( /\ pcTurn = "tts" /\ pcTurn' = "idle"
        /\ ttsPc["turn"] = "playing"
        /\ audio[ttsAudio["turn"]] = "playing"
        /\ audio'[ttsAudio["turn"]] = "ended"
        /\ ~isInterruption
        /\ status' = "active" /\ ~isMuted' )
      => ( /\ uiPhase' = "listening"
           /\ stream' = "live" => mediaRecorder' = "recording" ) ]_vars

\* ---- C9 ----
\* C9: once the call has ended no step changes the phase, appends to the
\* transcript, starts a playback, starts the Recorder or acquires the
\* microphone.
C9_NothingAfterEnd ==
  [][ status = "ended" =>
        /\ uiPhase' = uiPhase
        /\ transcript' = transcript
        /\ \A i \in AudioIds : Active(i)' => Active(i)
        /\ mediaRecorder' = "recording" => mediaRecorder = "recording"
        /\ stream' = "live" => stream = "live" ]_vars

\* ---- C10 ----
\* C10: the step in which endCall starts cancels the VAD frame, stops the
\* tracks and closes the audio context, and once the call has ended no
\* playback is playing and the Recorder is not capturing.
C10_EndReleasesResources ==
  /\ [][ (pcEnd = "idle" /\ pcEnd' # "idle")
           => (~vadAnimation' /\ stream' # "live"
               /\ audioContext' # "running") ]_vars
  /\ [](status = "ended" =>
          /\ \A i \in AudioIds : ~Active(i)
          /\ mediaRecorder # "recording")

\* ---- the loudness sequence heard so far ----
RECURSIVE TimeAt(_)
\* when the i-th frame of the script is taken, counted from the page load
TimeAt(i) == IF i = 0 THEN 0 ELSE TimeAt(i - 1) + mic[i].dt

\* the loud frames among the first n of the script
LoudIn(n) == {i \in 1..n : mic[i].loud}

FirstLoud == CHOOSE i \in LoudIn(Len(mic)) : \A j \in LoudIn(Len(mic)) : i <= j

LastLoud == CHOOSE i \in LoudIn(Len(mic)) : \A j \in LoudIn(Len(mic)) : j <= i

\* the script is silence, one run of loud frames, silence
OneRun ==
  /\ mic # <<>> /\ LoudIn(Len(mic)) # {}
  /\ \A i \in FirstLoud..LastLoud : mic[i].loud

LoudSpan == TimeAt(LastLoud) - TimeAt(FirstLoud)

\* a frame later than SILENCE_DURATION after the last loud one was taken
SilenceElapsed ==
  \E i \in (LastLoud + 1)..micPos :
    TimeAt(i) - TimeAt(LastLoud) > SILENCE_DURATION

C13_MaxRecordingForcesStop ==
  ( /\ mic # <<>> /\ micPos >= 1 /\ LoudIn(micPos) = 1..micPos
    /\ TimeAt(micPos) - TimeAt(1) >= MAX_RECORDING_MS )
    => (mediaRecorder # "recording" \/ stopEvent \/ turns > 0)

ActiveAfter == status' = "active" /\ ~isMuted' /\ mounted'

C16_TranscriptionFailureIsSilent ==
  [][ (pcTurn = "stt" /\ pcTurn' # "stt" /\ sttData' \in {"error", "throw"})
      => /\ toasts' = toasts
         /\ transcript' = transcript
         /\ pcTurn' = "idle"
         /\ ~isProcessing'
         /\ ActiveAfter => uiPhase' = "listening" ]_vars

\* ---- C17 ----
\* C17: the step in which response generation fails does not end the
\* call, appends no assistant reply, starts no playback and clears the
\* processing and interrupt flags; the call being active and not muted,
\* the phase is Listening after it and, the stream being live, the
\* Recorder is capturing again.
C17_ResponseFailureReturnsToListening ==
  [][ (pcTurn = "ai" /\ pcTurn' # "ai" /\ aiData' = "error")
      => /\ status' = status /\ onEndCalled' = onEndCalled
         /\ transcript' = transcript
         /\ pcTurn' = "idle"
         /\ \A i \in AudioIds : Active(i)' => Active(i)
         /\ ~isProcessing' /\ ~isInterruption'
         /\ ActiveAfter => uiPhase' = "listening"
         /\ (ActiveAfter /\ stream' = "live")
              => mediaRecorder' = "recording" ]_vars

\* ---- C18 ----
\* C18: the step in which starting to listen fails (no Recorder is set up)
\* raises a toast and ends the call: onEndCall is invoked and the
\* component is taken down.
C18_MicFailureEndsCall ==
  [][ (pcStart = "mic" /\ pcStart' = "done" /\ mediaRecorder' = "null")
      => /\ Len(toasts') > Len(toasts)
         /\ onEndCalled' /\ ~mounted' ]_vars

\* ---- C19 ----
\* C19: in every reachable state, calling startRecording twice leaves the
\* state that one call leaves, and a second call made after chunks were
\* buffered changes nothing: the chunks are kept.
C19_StartRecordingIdempotent ==
  LET once == startRecording(Cur) IN
  /\ startRecording(once) = once
  /\ \A n \in 0..MaxChunks :
       LET buffered == [once EXCEPT !.audioChunks = n] IN
       once.mediaRecorder = "recording"
         => startRecording(buffered) = buffered

\* the Recorder is capturing and has buffered chunks that a second start
\* could lose
C19_Witness ==
  mediaRecorder = "recording" /\ isRecording /\ audioChunks > 0

\* ---- C20 ----
NotSpace(c) == c # " "

NoSpaces(t) == SelectSeq(t, NotSpace)

RECURSIVE ConcatTexts(_)
\* the texts of the segments, one after the other
ConcatTexts(segments) ==
  IF segments = <<>> THEN <<>>
  ELSE Head(segments).text \o ConcatTexts(Tail(segments))

\* C20: a plan has at least one segment, and the texts of its segments,
\* concatenated in order, are its spokenText character for character,
\* whitespace aside.
C20_SegmentsReproduceSpokenText ==
  plan.planned
    => /\ Len(plan.segments) >= 1
       /\ NoSpaces(ConcatTexts(plan.segments)) = NoSpaces(plan.spokenText)

\* ---- C21 ----
\* C21: the plan of "Hello, how are you?" (neutral, no filler) is the
\* segment "Hello," with pause 300 and the segment "how are you?" with
\* pause 600, and the segment texts, joined by a space, are the input.
C21_HelloPlan ==
  (plan.planned /\ planText = HelloText /\ planEmotion = "neutral"
     /\ plan.spokenText = HelloText)
    => /\ Len(plan.segments) = 2
       /\ plan.segments[1].text = SubSeq(HelloText, 1, 6)
       /\ plan.segments[1].pauseAfterMs = 300
       /\ plan.segments[2].text = SubSeq(HelloText, 8, Len(HelloText))
       /\ plan.segments[2].pauseAfterMs = 600
       /\ plan.segments[1].text \o <<" ">> \o plan.segments[2].text
            = HelloText

\* planSpeech has planned "Hello, how are you?" without a filler
C21_Witness ==
  /\ plan.planned /\ planText = HelloText /\ planEmotion = "neutral"
  /\ plan.spokenText = HelloText /\ plan.segments # <<>>

RunStart(n) ==
  CHOOSE i \in 1..n :
    /\ \A j \in i..n : mic[j].loud
    /\ \A k \in 1..(i - 1) : \E j \in k..n : ~mic[j].loud

C26_ResolvedLeavesNoAudio ==
  [][ \A c \in Callers :
        (ttsPc[c] # "resolved" /\ ttsPc'[c] = "resolved")
          => audioRef' = 0 ]_vars

\* ---- C27 ----
\* C27: the call's long-lived callbacks act on the current status and mute
\* state: what they read is what the component holds, and once the status
\* is active and listening has been set up (the analyser exists, the
\* stream is live, the component is on screen) the VAD frame callback has
\* passed its guard and is scheduled again.
C27_CallbacksSeeCurrentState ==
  /\ cbStatus = status /\ cbMuted = isMuted
  /\ (status = "active" /\ analyser /\ mounted /\ stream = "live")
       => vadAnimation

C30_EndCallCompletes ==
  [][ pcEnd' # pcEnd
        => \/ (pcEnd = "idle" /\ pcEnd' = "notify")
           \/ /\ pcEnd' = "done" /\ onEndCalled'
              /\ mounted => status' = "ended" ]_vars

TypeOK ==
  /\ status \in {"connecting", "active", "ended"}
  /\ uiPhase \in {"connecting", "listening", "transcribing", "thinking",
                  "speaking", "ended"}
  /\ audioRef \in 0..MaxAudio
  /\ volume \in 0..FULL_VOLUME
  /\ turns \in 0..MaxTurns
  /\ inFlight \in 0..MaxTurns
====
